---- MODULE Spec2Model ----
(***************************************************************************)
(* Model of src/advanced-vector/vector.h: RawMemory<T> (a block of raw     *)
(* storage) and Vector<T> (size_ live elements at the front of one         *)
(* RawMemory).  Buffers live in a heap and are named by an id, so that     *)
(* ownership and sharing are visible.  Every slot of a buffer is either    *)
(* Raw (no constructed element) or holds an element value; a moved-from    *)
(* element is constructed and holds MovedFrom.  Every element operation    *)
(* the element type allows to throw can be made to throw by a fault.       *)
(***************************************************************************)
EXTENDS Integers, Sequences, FiniteSets, TLC

VARIABLES elem, heap, vec, call, thrown, prev

vars == <<elem, heap, vec, call, thrown, prev>>

\* ---------------------------------------------------------------- bounds
MaxCap == 4
MaxCapPair == 2
MaxPushCap == 8
NBuf == 3
MaxThrown == 1
\* The width of size_t in the model of RawMemory's byte arithmetic.
WordBits == 5

Vals == {1, 2}
OneVal == {1}
ScenarioVals == {1, 2, 3, 99}

\* ------------------------------------------------------------ slot values
\* DefaultVal is the state default-initialization leaves an element in
\* (for a trivially constructible T: an indeterminate value).
Raw == -1
MovedFrom == -2
DefaultVal == 0

\* sizeof(T) of the element types tried.
ElemSizes == {1, 2, 4}

Names == {"a", "b"}
BufIds == 1..NBuf

Max(x, y) == IF x >= y THEN x ELSE y
Min(x, y) == IF x <= y THEN x ELSE y

\* The element types the template can be instantiated with, by the two
\* traits the code queries.
ElemTypes == [copyable : BOOLEAN, nothrowMove : BOOLEAN]

\* if constexpr (is_nothrow_move_constructible_v<T> || !is_copy_constructible_v<T>)
ByMove(t) == t.nothrowMove \/ ~t.copyable

\* Whether one relocation step (a move or a copy construction) can throw.
RelocCanThrow(t) == IF ByMove(t) THEN ~t.nothrowMove ELSE TRUE

\* A fault: the phase of the call that throws, the number of element
\* operations of that phase done before, and whether the exception derives
\* from std::exception.  The kind is told apart only where a handler of the
\* code names a type, the relocations of the growing Emplace.
NoFault == [at |-> "none", idx |-> 0, kind |-> "std"]
Faults(phases, n) ==
    {f \in [at : phases, idx : 0..n, kind : {"std", "other"}] :
       f.kind = "other" => f.at \in {"prefix", "suffix"}}

\* ------------------------------------------------------------ raw storage
Fill(n, s) == [i \in 1..n |-> s]

\* RawMemory::Allocate: a fresh block; the lowest free id stands for the address.
FreeIds(h) == {b \in BufIds : h[b] = <<>>}
Allocate(h) == CHOOSE b \in FreeIds(h) : \A c \in FreeIds(h) : b <= c

\* The allocation requests RawMemory(n) issues: n != 0 ? operator new(...) : nullptr
Requests(n) == IF n # 0 THEN 1 ELSE 0

LiveCount(buf) == Cardinality({i \in 1..Len(buf) : buf[i] # Raw})

\* std::destroy_at(p + first), std::destroy_n(p + first, n): 0-based first.
DestroyN(buf, first, n) ==
    [i \in 1..Len(buf) |-> IF first < i /\ i <= first + n THEN Raw ELSE buf[i]]
DestroyAt(buf, first) == DestroyN(buf, first, 1)
\* A destructor run on a slot that holds no constructed element.
DestroysRaw(buf, first, n) == \E i \in (first + 1)..(first + n) : buf[i] = Raw

\* std::uninitialized_copy_n(src + sfirst, n, dst + dfirst); the copy of
\* element number stop (0-based) throws when stop < n, and the algorithm
\* destroys what it had constructed.
UninitializedCopyN(src, sfirst, n, dst, dfirst, stop) ==
    [src |-> src,
     dst |-> IF stop < n THEN DestroyN(dst, dfirst, stop)
             ELSE [i \in 1..Len(dst) |->
                     IF dfirst < i /\ i <= dfirst + n
                     THEN src[sfirst + (i - dfirst)] ELSE dst[i]],
     threw |-> stop < n]

\* std::uninitialized_move_n: as the copy, and every element moved so far is
\* left moved-from in the source.
UninitializedMoveN(src, sfirst, n, dst, dfirst, stop) ==
    [src |-> [i \in 1..Len(src) |->
                IF sfirst < i /\ i <= sfirst + Min(stop, n)
                THEN MovedFrom ELSE src[i]],
     dst |-> IF stop < n THEN DestroyN(dst, dfirst, stop)
             ELSE [i \in 1..Len(dst) |->
                     IF dfirst < i /\ i <= dfirst + n
                     THEN src[sfirst + (i - dfirst)] ELSE dst[i]],
     threw |-> stop < n]

\* Mutant: the relocation moves whatever the element type.
RelocateAlwaysMoves(t, src, sfirst, n, dst, dfirst, stop) ==
    UninitializedMoveN(src, sfirst, n, dst, dfirst, stop)

\* The relocation the code selects at compile time.
Relocate(t, src, sfirst, n, dst, dfirst, stop) ==
    IF ByMove(t) THEN UninitializedMoveN(src, sfirst, n, dst, dfirst, stop)
    ELSE UninitializedCopyN(src, sfirst, n, dst, dfirst, stop)

\* ------------------------------------------------------------- the vector
BufOf(h, v, x) == IF v[x].buffer = 0 THEN <<>> ELSE h[v[x].buffer]
Buf(x) == BufOf(heap, vec, x)
Size(x) == vec[x].size
Capacity(x) == vec[x].capacity
\* The element sequence: operator[] over [0, Size()).
ContentsOf(h, v, x) == [i \in 1..v[x].size |-> BufOf(h, v, x)[i]]
Contents(x) == ContentsOf(heap, vec, x)

\* What a call leaves: old is the vector's buffer as the call leaves it,
\* fresh a newly allocated buffer swapped in (<<>>: none), lost the number
\* of constructed elements whose storage was released or that were never
\* destroyed, ub whether a destructor ran on a slot holding no element,
\* allocs the number of raw-storage allocation requests the call issued.
Result(old, fresh, size, threw, ub, lost, ret, allocs) ==
    [old |-> old, fresh |-> fresh, size |-> size, threw |-> threw,
     ub |-> ub, lost |-> lost, ret |-> ret, allocs |-> allocs]

\* Mutant: the capacity grows by one slot.
GrowByOne(cap) == cap + 1

\* const size_t new_capacity = std::max(size_t(1), Capacity() * 2);
GrowCapacity(cap) == Max(1, cap * 2)

\* Emplace, the branch size_ == Capacity().
EmplaceGrow(t, old, sz, cap, offset, val, f) ==
    LET req == Requests(GrowCapacity(cap))
        nd0 == Fill(GrowCapacity(cap), Raw)
        nd1 == [nd0 EXCEPT ![offset + 1] = val]
        P == Relocate(t, old, 0, offset, nd1, 0,
                      IF f.at = "prefix" THEN f.idx ELSE offset)
        S == Relocate(t, P.src, offset, sz - offset, P.dst, offset + 1,
                      IF f.at = "suffix" THEN f.idx ELSE sz - offset)
        caught == f.kind = "std"
    IN  IF f.at \in {"alloc", "ctor"}
        THEN Result(old, <<>>, sz, TRUE, FALSE, 0, 0, req)
        ELSE IF P.threw
        THEN \* outer handler only
             LET nd == IF caught THEN DestroyAt(P.dst, offset) ELSE P.dst
             IN  Result(P.src, <<>>, sz, TRUE, FALSE, LiveCount(nd), 0, req)
        ELSE IF S.threw
        THEN \* inner handler, then the rethrow reaches the outer handler
             LET inner == IF caught THEN DestroyN(S.dst, 0, offset + 1) ELSE S.dst
                 outer == IF caught THEN DestroyAt(inner, offset) ELSE inner
             IN  Result(S.src, <<>>, sz, TRUE,
                        caught /\ DestroysRaw(inner, offset, 1),
                        LiveCount(outer), 0, req)
        ELSE \* std::destroy_n(begin(), size_); data_.Swap(new_data)
             Result(DestroyN(S.src, 0, sz), S.dst, sz + 1, FALSE, FALSE,
                    LiveCount(DestroyN(S.src, 0, sz)), offset, req)

\* std::move_backward(first, last, d_last) over one buffer, 0-based; the
\* move assignment number stop throws when stop < last - first.
MoveBackward(buf, first, last, dlast, stop) ==
    LET n == last - first
        done == Min(stop, n)
    IN  [i \in 1..Len(buf) |->
           IF dlast - done < i /\ i <= dlast
           THEN buf[i - (dlast - last)]
           ELSE IF last - done < i /\ i <= last /\ ~(dlast - done < i)
           THEN MovedFrom
           ELSE buf[i]]

\* Mutant: the new element is written at its position without the shift.
EmplaceInPlaceNoShift(t, old, sz, offset, val, f) ==
    Result([old EXCEPT ![offset + 1] = val], <<>>, sz + 1, FALSE, FALSE, 0,
           offset, 0)

\* Emplace, the branch size_ < Capacity().
EmplaceInPlace(t, old, sz, offset, val, f) ==
    IF f.at = "ctor"
    THEN Result(old, <<>>, sz, TRUE, FALSE, 0, 0, 0)
    ELSE IF offset = sz
    THEN \* std::construct_at(data_ + offset, args...)
         Result([old EXCEPT ![offset + 1] = val], <<>>, sz + 1, FALSE, FALSE,
                IF old[offset + 1] # Raw THEN 1 ELSE 0, offset, 0)
    ELSE IF f.at = "tail"
    THEN \* new (end()) T(std::move(data_[size_ - 1])) throws; catch (...)
         Result(DestroyAt(old, sz), <<>>, sz, TRUE, DestroysRaw(old, sz, 1), 0, 0, 0)
    ELSE LET tail == [old EXCEPT ![sz + 1] = old[sz], ![sz] = MovedFrom]
             shifted == MoveBackward(tail, offset, sz - 1, sz,
                                     IF f.at = "shift" THEN f.idx ELSE sz - 1 - offset)
         IN  IF f.at = "shift"
             THEN Result(DestroyAt(shifted, sz), <<>>, sz, TRUE, FALSE,
                         IF old[sz + 1] # Raw THEN 1 ELSE 0, 0, 0)
             ELSE IF f.at = "assign"
             THEN \* data_[offset] = std::move(tmp) throws, outside the try
                  Result(shifted, <<>>, sz, TRUE, FALSE,
                         IF old[sz + 1] # Raw THEN 1 ELSE 0, 0, 0)
             ELSE Result([shifted EXCEPT ![offset + 1] = val], <<>>, sz + 1,
                         FALSE, FALSE, IF old[sz + 1] # Raw THEN 1 ELSE 0, offset, 0)

\* The faults a call of Emplace can meet.
EmplaceFaults(t, sz, cap, offset) ==
    {NoFault} \cup
    IF sz = cap
    THEN {f \in Faults({"alloc", "ctor", "prefix", "suffix"}, sz) :
            /\ f.at \in {"alloc", "ctor"} => f.idx = 0
            /\ f.at = "alloc" => f.kind = "std"
            /\ f.at = "prefix" => RelocCanThrow(t) /\ f.idx < offset
            /\ f.at = "suffix" => RelocCanThrow(t) /\ f.idx < sz - offset}
    ELSE {f \in Faults({"ctor", "tail", "shift", "assign"}, sz) :
            /\ f.at \in {"ctor", "tail", "assign"} => f.idx = 0
            /\ f.at \in {"tail", "shift", "assign"} => offset < sz
            /\ f.at = "tail" => ~t.nothrowMove
            /\ f.at = "shift" => f.idx < sz - 1 - offset}

EmplaceResult(t, old, sz, cap, offset, val, f) ==
    IF sz = cap THEN EmplaceGrow(t, old, sz, cap, offset, val, f)
    ELSE EmplaceInPlace(t, old, sz, offset, val, f)

\* Mutant: the new element is constructed from its argument after the
\* existing elements were relocated or shifted.
EmplaceAliasedReadsLate(t, old, sz, cap, offset, j, rvalue, f) ==
    LET r0 == EmplaceResult(t, old, sz, cap, offset, MovedFrom, f)
        late == r0.old[j + 1]
    IN  EmplaceResult(t, old, sz, cap, offset, late, f)

\* Emplace(pos, x) with x a reference to the element j of the same array,
\* an lvalue (copied from) or an rvalue (moved from).  On each path the
\* first thing done to the elements is the construction that reads x:
\* construct_at into the new buffer (line 300), construct_at at end()
\* (line 355) or T tmp(...) (line 360).
EmplaceAliased(t, old, sz, cap, offset, j, rvalue, f) ==
    LET val == old[j + 1]
        src == IF rvalue THEN [old EXCEPT ![j + 1] = MovedFrom] ELSE old
    IN  EmplaceResult(t, src, sz, cap, offset, val, f)

\* Reserve(new_capacity).
ReserveFaults(t, sz, cap, n) ==
    {NoFault} \cup
    IF n > cap
    THEN {f \in Faults({"alloc", "reloc"}, sz) :
            /\ f.at = "alloc" => f.idx = 0 /\ f.kind = "std"
            /\ f.at = "reloc" => RelocCanThrow(t) /\ f.idx < sz}
    ELSE {}

\* Mutant: only a smaller new_capacity returns early.
ReserveReallocatesOnEqual(t, old, sz, cap, n, f) ==
    IF n < cap \/ n = 0
    THEN Result(old, <<>>, sz, FALSE, FALSE, 0, 0, 0)
    ELSE IF f.at = "alloc"
    THEN Result(old, <<>>, sz, TRUE, FALSE, 0, 0, Requests(n))
    ELSE LET R == Relocate(t, old, 0, sz, Fill(n, Raw), 0,
                           IF f.at = "reloc" THEN f.idx ELSE sz)
         IN  IF R.threw
             THEN Result(R.src, <<>>, sz, TRUE, FALSE, LiveCount(R.dst), 0,
                         Requests(n))
             ELSE Result(DestroyN(R.src, 0, sz), R.dst, sz, FALSE, FALSE,
                         LiveCount(DestroyN(R.src, 0, sz)), 0, Requests(n))

ReserveResult(t, old, sz, cap, n, f) ==
    IF n <= cap
    THEN Result(old, <<>>, sz, FALSE, FALSE, 0, 0, 0)
    ELSE IF f.at = "alloc"
    THEN Result(old, <<>>, sz, TRUE, FALSE, 0, 0, Requests(n))
    ELSE LET R == Relocate(t, old, 0, sz, Fill(n, Raw), 0,
                           IF f.at = "reloc" THEN f.idx ELSE sz)
         IN  IF R.threw
             THEN Result(R.src, <<>>, sz, TRUE, FALSE, LiveCount(R.dst), 0,
                         Requests(n))
             ELSE Result(DestroyN(R.src, 0, sz), R.dst, sz, FALSE, FALSE,
                         LiveCount(DestroyN(R.src, 0, sz)), 0, Requests(n))

\* std::uninitialized_default_construct_n(p + first, n); construction
\* number stop throws when stop < n and the algorithm destroys its own.
UninitializedDefaultConstructN(buf, first, n, stop) ==
    IF stop < n THEN DestroyN(buf, first, stop)
    ELSE [i \in 1..Len(buf) |->
            IF first < i /\ i <= first + n THEN DefaultVal ELSE buf[i]]

\* Resize(new_size).
ResizeFaults(t, sz, cap, n) ==
    IF sz >= n THEN {NoFault}
    ELSE ReserveFaults(t, sz, cap, n) \cup
         {f \in Faults({"default"}, n) : f.idx < n - sz}

\* Mutant: the shrinking Resize moves the kept elements to a block of
\* exactly new_size slots.
ResizeShrinksToFit(t, old, sz, cap, n, f) ==
    IF sz >= n
    THEN Result(DestroyN(old, 0, sz), SubSeq(old, 1, n), n, FALSE, FALSE, 0, 0,
                Requests(n))
    ELSE LET r == ReserveResult(t, old, sz, cap, n, f)
             cur == IF r.fresh # <<>> THEN r.fresh ELSE r.old
             built == UninitializedDefaultConstructN(
                          cur, sz, n - sz, IF f.at = "default" THEN f.idx ELSE n - sz)
         IN  IF r.threw THEN r
             ELSE IF r.fresh # <<>>
             THEN Result(r.old, built, IF f.at = "default" THEN sz ELSE n,
                         f.at = "default", FALSE, r.lost, 0, r.allocs)
             ELSE Result(built, <<>>, IF f.at = "default" THEN sz ELSE n,
                         f.at = "default", FALSE, r.lost, 0, r.allocs)

\* Mutant: the shrinking Resize lowers size_ without destroying.
ResizeForgetsDestroy(t, old, sz, cap, n, f) ==
    IF sz >= n
    THEN Result(old, <<>>, n, FALSE, FALSE, 0, 0, 0)
    ELSE LET r == ReserveResult(t, old, sz, cap, n, f)
             cur == IF r.fresh # <<>> THEN r.fresh ELSE r.old
             built == UninitializedDefaultConstructN(
                          cur, sz, n - sz, IF f.at = "default" THEN f.idx ELSE n - sz)
         IN  IF r.threw THEN r
             ELSE IF r.fresh # <<>>
             THEN Result(r.old, built, IF f.at = "default" THEN sz ELSE n,
                         f.at = "default", FALSE, r.lost, 0, r.allocs)
             ELSE Result(built, <<>>, IF f.at = "default" THEN sz ELSE n,
                         f.at = "default", FALSE, r.lost, 0, r.allocs)

\* Mutant: the growing Resize default-constructs from slot 0.
ResizeConstructsFromZero(t, old, sz, cap, n, f) ==
    IF sz >= n
    THEN Result(DestroyN(old, n, sz - n), <<>>, n, FALSE, FALSE, 0, 0, 0)
    ELSE LET r == ReserveResult(t, old, sz, cap, n, f)
             cur == IF r.fresh # <<>> THEN r.fresh ELSE r.old
             built == UninitializedDefaultConstructN(
                          cur, 0, n - sz, IF f.at = "default" THEN f.idx ELSE n - sz)
         IN  IF r.threw THEN r
             ELSE IF r.fresh # <<>>
             THEN Result(r.old, built, IF f.at = "default" THEN sz ELSE n,
                         f.at = "default", FALSE, r.lost, 0, r.allocs)
             ELSE Result(built, <<>>, IF f.at = "default" THEN sz ELSE n,
                         f.at = "default", FALSE, r.lost, 0, r.allocs)

\* Mutant: the growing Resize obtains a block of its own before Reserve.
ResizeAllocatesTwice(t, old, sz, cap, n, f) ==
    IF sz >= n
    THEN Result(DestroyN(old, n, sz - n), <<>>, n, FALSE, FALSE, 0, 0, 0)
    ELSE LET r == ReserveResult(t, old, sz, cap, n, f)
             cur == IF r.fresh # <<>> THEN r.fresh ELSE r.old
             built == UninitializedDefaultConstructN(
                          cur, sz, n - sz, IF f.at = "default" THEN f.idx ELSE n - sz)
         IN  IF r.threw THEN r
             ELSE IF r.fresh # <<>>
             THEN Result(r.old, built, IF f.at = "default" THEN sz ELSE n,
                         f.at = "default", FALSE, r.lost, 0,
                         Requests(n) + r.allocs)
             ELSE Result(built, <<>>, IF f.at = "default" THEN sz ELSE n,
                         f.at = "default", FALSE, r.lost, 0,
                         Requests(n) + r.allocs)

\* Mutant: the growing Resize does not call Reserve.
ResizeWithoutReserve(t, old, sz, cap, n, f) ==
    IF sz >= n
    THEN Result(DestroyN(old, n, sz - n), <<>>, n, FALSE, FALSE, 0, 0, 0)
    ELSE Result(UninitializedDefaultConstructN(old, sz, n - sz, n - sz), <<>>, n,
                FALSE, FALSE, 0, 0, 0)

ResizeResult(t, old, sz, cap, n, f) ==
    IF sz >= n
    THEN Result(DestroyN(old, n, sz - n), <<>>, n, FALSE, FALSE, 0, 0, 0)
    ELSE LET r == ReserveResult(t, old, sz, cap, n, f)
             cur == IF r.fresh # <<>> THEN r.fresh ELSE r.old
             built == UninitializedDefaultConstructN(
                          cur, sz, n - sz, IF f.at = "default" THEN f.idx ELSE n - sz)
         IN  IF r.threw THEN r
             ELSE IF r.fresh # <<>>
             THEN Result(r.old, built, IF f.at = "default" THEN sz ELSE n,
                         f.at = "default", FALSE, r.lost, 0, r.allocs)
             ELSE Result(built, <<>>, IF f.at = "default" THEN sz ELSE n,
                         f.at = "default", FALSE, r.lost, 0, r.allocs)

\* PopBack(): std::destroy_at(data_.GetAddress() + size_ - 1); --size_;
PopBackResult(old, sz) ==
    Result(DestroyAt(old, sz - 1), <<>>, sz - 1, FALSE,
           DestroysRaw(old, sz - 1, 1), 0, 0, 0)

\* std::move(first, last, d_first) over one buffer, 0-based; the move
\* assignment number stop throws when stop < last - first.
MoveForward(buf, first, last, dfirst, stop) ==
    LET done == Min(stop, last - first)
    IN  [i \in 1..Len(buf) |->
           IF dfirst < i /\ i <= dfirst + done
           THEN buf[i + (first - dfirst)]
           ELSE IF first < i /\ i <= first + done
           THEN MovedFrom
           ELSE buf[i]]

\* Erase(pos).
EraseFaults(sz, offset) ==
    {NoFault} \cup {f \in Faults({"shift"}, sz) : f.idx < sz - 1 - offset}

\* Mutant: the shift starts one element too far.
EraseRemovesNext(old, sz, offset, f) ==
    LET first == Min(offset + 2, sz)
        moved == MoveForward(old, first, sz, first - 1, sz - first)
    IN  Result(DestroyAt(moved, sz - 1), <<>>, sz - 1, FALSE, FALSE, 0, offset, 0)

\* Mutant: Erase drops the last element without the shift.
EraseWithoutShift(old, sz, offset, f) ==
    Result(DestroyAt(old, sz - 1), <<>>, sz - 1, FALSE, FALSE, 0, offset, 0)

EraseResult(old, sz, offset, f) ==
    LET moved == MoveForward(old, offset + 1, sz, offset,
                             IF f.at = "shift" THEN f.idx ELSE sz - 1 - offset)
    IN  IF f.at = "shift"
        THEN Result(moved, <<>>, sz, TRUE, FALSE, 0, 0, 0)
        ELSE Result(DestroyAt(moved, sz - 1), <<>>, sz - 1, FALSE,
                    DestroysRaw(moved, sz - 1, 1), 0, offset, 0)

\* operator=(const Vector &rhs), this != &rhs.
CopyAssignFaults(sz, cap, rsz) ==
    {NoFault} \cup
    IF rsz > cap
    THEN {f \in Faults({"alloc", "copy"}, rsz) :
            /\ f.at = "alloc" => f.idx = 0 /\ f.kind = "std"
            /\ f.at = "copy" => f.idx < rsz}
    ELSE {f \in Faults({"assign", "copy"}, rsz) :
            /\ f.at = "assign" => f.idx < Min(sz, rsz)
            /\ f.at = "copy" => f.idx < rsz - sz}

\* Mutant: the assignment loop starts at i = 1.
CopyAssignPrefixFromOne(buf, rhs, n, stop) ==
    [i \in 1..Len(buf) |-> IF 1 < i /\ i <= Min(stop, n) THEN rhs[i] ELSE buf[i]]

\* The loop data_[i] = rhs.data_[i] over [0, n); assignment number stop throws.
CopyAssignPrefix(buf, rhs, n, stop) ==
    [i \in 1..Len(buf) |-> IF i <= Min(stop, n) THEN rhs[i] ELSE buf[i]]

\* Mutant: a new copy is built whenever rhs holds more elements than *this.
CopyAssignReallocatesOnSize(old, sz, cap, rhs, rsz, f) ==
    IF rsz > sz
    THEN LET C == UninitializedCopyN(rhs, 0, rsz, Fill(rsz, Raw), 0,
                                     IF f.at = "copy" THEN f.idx ELSE rsz)
         IN  IF f.at = "alloc" \/ C.threw
             THEN Result(old, <<>>, sz, TRUE, FALSE,
                         IF f.at = "alloc" THEN 0 ELSE LiveCount(C.dst), 0,
                         Requests(rsz))
             ELSE Result(DestroyN(old, 0, sz), C.dst, rsz, FALSE, FALSE,
                         LiveCount(DestroyN(old, 0, sz)), 0, Requests(rsz))
    ELSE LET assigned == CopyAssignPrefix(old, rhs, rsz,
                                          IF f.at = "assign" THEN f.idx ELSE rsz)
         IN  IF f.at = "assign"
             THEN Result(assigned, <<>>, sz, TRUE, FALSE, 0, 0, 0)
             ELSE Result(DestroyN(assigned, rsz, sz - rsz), <<>>, rsz, FALSE, FALSE,
                         0, 0, 0)

CopyAssignResult(old, sz, cap, rhs, rsz, f) ==
    IF rsz > cap
    THEN \* Vector(rhs).Swap(*this): the copy constructor, then ~Vector of the temporary
         LET C == UninitializedCopyN(rhs, 0, rsz, Fill(rsz, Raw), 0,
                                     IF f.at = "copy" THEN f.idx ELSE rsz)
         IN  IF f.at = "alloc" \/ C.threw
             THEN Result(old, <<>>, sz, TRUE, FALSE,
                         IF f.at = "alloc" THEN 0 ELSE LiveCount(C.dst), 0,
                         Requests(rsz))
             ELSE Result(DestroyN(old, 0, sz), C.dst, rsz, FALSE, FALSE,
                         LiveCount(DestroyN(old, 0, sz)), 0, Requests(rsz))
    ELSE LET m == Min(sz, rsz)
             assigned == CopyAssignPrefix(old, rhs, m,
                                          IF f.at = "assign" THEN f.idx ELSE m)
             C == UninitializedCopyN(rhs, sz, rsz - sz, assigned, sz,
                                     IF f.at = "copy" THEN f.idx ELSE rsz - sz)
         IN  IF f.at = "assign"
             THEN Result(assigned, <<>>, sz, TRUE, FALSE, 0, 0, 0)
             ELSE IF rsz > sz
             THEN Result(C.dst, <<>>, IF C.threw THEN sz ELSE rsz, C.threw, FALSE,
                         0, 0, 0)
             ELSE Result(DestroyN(assigned, rsz, sz - rsz), <<>>, rsz, FALSE, FALSE,
                         0, 0, 0)

\* ------------------------------------------------------------- the calls
Alive == call.outcome # "abort"

Call(op, who, from, k, v, f, r, outcome) ==
    [op |-> op, who |-> who, from |-> from, k |-> k, v |-> v, at |-> f.at,
     kind |-> f.kind, outcome |-> outcome, ret |-> r.ret, ub |-> r.ub,
     lost |-> r.lost, allocs |-> r.allocs]

\* The call's effect on the vector x and the heap: data_.Swap(new_data) and
\* the release of the old block when a fresh buffer was built.
Commit(x, r, newcap) ==
    IF r.fresh # <<>>
    THEN LET b == Allocate(heap)
         IN  /\ heap' = [c \in BufIds |->
                           IF c = b THEN r.fresh
                           ELSE IF c = vec[x].buffer THEN <<>> ELSE heap[c]]
             /\ vec' = [vec EXCEPT ![x] =
                          [buffer |-> b, capacity |-> newcap, size |-> r.size]]
    ELSE /\ heap' = [c \in BufIds |-> IF c = vec[x].buffer THEN r.old ELSE heap[c]]
         /\ vec' = [vec EXCEPT ![x].size = r.size]

\* A destructor run on a slot without an element is undefined behaviour:
\* the call either goes on as if nothing happened or the process ends.
Outcomes(r) ==
    IF r.ub THEN {"threw", "abort"} ELSE IF r.threw THEN {"threw"} ELSE {"ok"}

\* The faults injected: all the call can meet, or none; at most MaxThrown
\* calls of a run fail.
Inject(faulty, fs) == IF faulty /\ thrown < MaxThrown THEN fs ELSE {NoFault}

\* What an observer of the array "a" sees: Size(), Capacity() and the
\* elements.  prev keeps what was seen before the call just made, and the
\* call made before it, in the runs that start with the observation on.
Observed(on) ==
    [on |-> on, size |-> Size("a"), capacity |-> Capacity("a"),
     contents |-> Contents("a"), call |-> call]

\* The record of the call just made, and the count of the calls that failed.
Record(c) ==
    /\ call' = c
    /\ thrown' = IF c.outcome = "ok" THEN thrown ELSE thrown + 1
    /\ prev' = IF prev.on THEN Observed(TRUE) ELSE prev

Emplace(x, maxcap, vals, faulty, op) ==
    /\ Alive
    /\ \E offset \in 0..Size(x), val \in vals :
         /\ op = "PushBack" => offset = Size(x)
         /\ Size(x) = Capacity(x) => GrowCapacity(Capacity(x)) <= maxcap
         /\ \E f \in Inject(faulty, EmplaceFaults(elem, Size(x), Capacity(x), offset)) :
              LET r == EmplaceResult(elem, Buf(x), Size(x), Capacity(x), offset, val, f)
              IN  /\ Commit(x, r, GrowCapacity(Capacity(x)))
                  /\ \E o \in Outcomes(r) :
                       Record(Call(op, x, x, offset, val, f, r, o))
    /\ UNCHANGED elem

\* PushBack(v[j]), Insert(pos, v[j]) and Insert(pos, std::move(v[j])): the
\* call record keeps j in its field v.
EmplaceOf(x, maxcap, op) ==
    /\ Alive
    /\ \E offset \in 0..Size(x), j \in 0..(Size(x) - 1) :
         /\ op = "PushBackOf" => offset = Size(x)
         /\ op # "InsertMoveOf" => elem.copyable
         /\ Size(x) = Capacity(x) => GrowCapacity(Capacity(x)) <= maxcap
         /\ LET r == EmplaceAliased(elem, Buf(x), Size(x), Capacity(x), offset, j,
                                    op = "InsertMoveOf", NoFault)
            IN  /\ Commit(x, r, GrowCapacity(Capacity(x)))
                /\ \E o \in Outcomes(r) :
                     Record(Call(op, x, x, offset, j, NoFault, r, o))
    /\ UNCHANGED elem

Reserve(x, maxcap, faulty) ==
    /\ Alive
    /\ \E n \in 0..maxcap :
         \E f \in Inject(faulty, ReserveFaults(elem, Size(x), Capacity(x), n)) :
           LET r == ReserveResult(elem, Buf(x), Size(x), Capacity(x), n, f)
           IN  /\ Commit(x, r, n)
               /\ \E o \in Outcomes(r) : Record(Call("Reserve", x, x, n, 0, f, r, o))
    /\ UNCHANGED elem

Resize(x, maxcap, faulty) ==
    /\ Alive
    /\ \E n \in 0..maxcap :
         \E f \in Inject(faulty, ResizeFaults(elem, Size(x), Capacity(x), n)) :
           LET r == ResizeResult(elem, Buf(x), Size(x), Capacity(x), n, f)
           IN  /\ Commit(x, r, n)
               /\ \E o \in Outcomes(r) : Record(Call("Resize", x, x, n, 0, f, r, o))
    /\ UNCHANGED elem

PopBack(x) ==
    /\ Alive
    /\ Size(x) > 0
    /\ LET r == PopBackResult(Buf(x), Size(x))
       IN  /\ Commit(x, r, Capacity(x))
           /\ \E o \in Outcomes(r) : Record(Call("PopBack", x, x, 0, 0, NoFault, r, o))
    /\ UNCHANGED elem

Erase(x, faulty) ==
    /\ Alive
    /\ \E offset \in 0..(Size(x) - 1) :
         \E f \in Inject(faulty, EraseFaults(Size(x), offset)) :
           LET r == EraseResult(Buf(x), Size(x), offset, f)
           IN  /\ Commit(x, r, Capacity(x))
               /\ \E o \in Outcomes(r) : Record(Call("Erase", x, x, offset, 0, f, r, o))
    /\ UNCHANGED elem

CopyAssign(x, y, faulty) ==
    /\ Alive
    /\ elem.copyable
    /\ IF x = y
       THEN \* if (this != &rhs) fails: nothing is done
            /\ UNCHANGED <<heap, vec>>
            /\ Record(Call("CopyAssign", x, y, 0, 0, NoFault,
                           Result(Buf(x), <<>>, Size(x), FALSE, FALSE, 0, 0, 0), "ok"))
       ELSE \E f \in Inject(faulty, CopyAssignFaults(Size(x), Capacity(x), Size(y))) :
              LET r == CopyAssignResult(Buf(x), Size(x), Capacity(x), Buf(y), Size(y), f)
              IN  /\ Commit(x, r, Size(y))
                  /\ \E o \in Outcomes(r) :
                       Record(Call("CopyAssign", x, y, 0, 0, f, r, o))
    /\ UNCHANGED elem

\* Mutant: the exchange leaves the other array empty.
SwapEmptiesOther(x, y, op) ==
    /\ Alive
    /\ vec' = [vec EXCEPT ![x] = vec[y],
                          ![y] = [buffer |-> 0, capacity |-> 0, size |-> 0]]
    /\ Record(Call(op, x, y, 0, 0, NoFault,
                   Result(<<>>, <<>>, 0, FALSE, FALSE, 0, 0, 0), "ok"))
    /\ UNCHANGED <<elem, heap>>

\* Swap(other): data_.Swap(other.data_); std::swap(size_, other.size_);
Swap(x, y, op) ==
    /\ Alive
    /\ vec' = [vec EXCEPT ![x] = vec[y], ![y] = vec[x]]
    /\ Record(Call(op, x, y, 0, 0, NoFault,
                   Result(<<>>, <<>>, 0, FALSE, FALSE, 0, 0, 0), "ok"))
    /\ UNCHANGED <<elem, heap>>

\* operator=(Vector &&rhs): Swap(rhs); return *this;
MoveAssign(x, y) == Swap(x, y, "MoveAssign")

\* size_t arithmetic: n * sizeof(T) as operator new receives it.
SizeMax == 2 ^ WordBits - 1
ByteCount(n, size) == (n * size) % (SizeMax + 1)

\* RawMemory(size_t capacity): buffer_(Allocate(capacity)), capacity_(capacity).
\* The block operator new returns holds the bytes asked for, that is
\* ByteCount \div sizeof(T) whole slots; for n = 0 nothing is asked.
NewRawMemory(x) ==
    /\ Alive
    /\ vec[x] = [buffer |-> 0, capacity |-> 0, size |-> 0]
    /\ \E n \in 0..SizeMax, size \in ElemSizes :
         \E f \in Inject(n # 0, {NoFault, [at |-> "alloc", idx |-> 0, kind |-> "std"]}) :
           LET slots == ByteCount(n, size) \div size
               b == Allocate(heap)
               r == Result(<<>>, Fill(slots, Raw), 0, f.at = "alloc", FALSE, 0,
                           slots, Requests(n))
           IN  /\ IF n = 0 \/ r.threw
                  THEN UNCHANGED <<heap, vec>>
                  ELSE /\ heap' = [heap EXCEPT ![b] = r.fresh]
                       /\ vec' = [vec EXCEPT ![x] =
                                    [buffer |-> b, capacity |-> n, size |-> 0]]
               /\ \E o \in Outcomes(r) :
                    Record(Call("RawMemory", x, x, n, size, f, r, o))
    /\ UNCHANGED elem

\* ~RawMemory(): Deallocate(buffer_); capacity_ = 0;
DeleteRawMemory(x) ==
    /\ Alive
    /\ vec[x].buffer # 0
    /\ vec[x].size = 0
    /\ heap' = [heap EXCEPT ![vec[x].buffer] = <<>>]
    /\ vec' = [vec EXCEPT ![x] = [buffer |-> 0, capacity |-> 0, size |-> 0]]
    /\ Record(Call("~RawMemory", x, x, 0, 0, NoFault,
                   Result(<<>>, <<>>, 0, FALSE, FALSE, 0, 0, 0), "ok"))
    /\ UNCHANGED elem

\* Vector(Vector &&other): x is constructed from y; a name that owns no
\* storage stands for the object not yet constructed.
MoveConstruct(x, y) ==
    /\ Alive
    /\ x # y
    /\ vec[x] = [buffer |-> 0, capacity |-> 0, size |-> 0]
    /\ vec' = [vec EXCEPT ![x] = vec[y],
                          ![y] = [buffer |-> 0, capacity |-> 0, size |-> 0]]
    /\ Record(Call("MoveConstruct", x, y, 0, 0, NoFault,
                   Result(<<>>, <<>>, 0, FALSE, FALSE, 0, 0, 0), "ok"))
    /\ UNCHANGED <<elem, heap>>

Construct(on) ==
    /\ elem \in ElemTypes
    /\ heap = [b \in BufIds |-> <<>>]
    /\ vec = [x \in Names |-> [buffer |-> 0, capacity |-> 0, size |-> 0]]
    /\ call = Call("Vector", "a", "a", 0, 0, NoFault,
                   Result(<<>>, <<>>, 0, FALSE, FALSE, 0, 0, 0), "ok")
    /\ thrown = 0
    /\ prev = Observed(on)

\* Vector() = default; for both arrays.
Init == Construct(FALSE)

\* One array under the calls that reallocate, with every fault they can meet.
Next ==
    \/ Emplace("a", MaxCap, Vals, TRUE, "Emplace")
    \/ Emplace("a", MaxCap, Vals, TRUE, "PushBack")
    \/ Reserve("a", MaxCap, TRUE)

Spec == Init /\ [][Next]_vars

\* One array under every call, with every fault.
NextAll ==
    \/ Emplace("a", MaxCap, OneVal, TRUE, "Emplace")
    \/ Reserve("a", MaxCap, TRUE)
    \/ Resize("a", MaxCap, TRUE)
    \/ PopBack("a")
    \/ Erase("a", TRUE)

SpecAll == Init /\ [][NextAll]_vars

\* Two arrays: the calls on either, succeeding, and every assignment
\* between them, with every fault.  None of these calls relocates under a
\* fault, so the element type matters only by being copyable or not.
InitPair == Init /\ elem.nothrowMove = elem.copyable

NextPair ==
    \/ \E x \in Names :
          \/ Emplace(x, MaxCapPair, OneVal, FALSE, "Emplace")
          \/ PopBack(x)
          \/ \E y \in Names : CopyAssign(x, y, TRUE)
          \/ \E y \in Names : MoveAssign(x, y)
          \/ \E y \in Names : MoveConstruct(x, y)
    \/ Emplace("a", MaxCapPair, OneVal, FALSE, "PushBack")
    \/ Reserve("b", MaxCapPair, FALSE)
    \/ Resize("b", MaxCapPair, FALSE)
    \/ Erase("b", FALSE)

SpecPair == InitPair /\ [][NextPair]_vars

\* One array, the calls of the concrete scenario and Reserve, none of them
\* failing.
NextScenario ==
    \/ Emplace("a", MaxCap, ScenarioVals, FALSE, "Emplace")
    \/ Emplace("a", MaxCap, ScenarioVals, FALSE, "PushBack")
    \/ Reserve("a", MaxCap, FALSE)
    \/ PopBack("a")
    \/ Erase("a", FALSE)

SpecScenario == Init /\ [][NextScenario]_vars

\* One array under appends and removals, with every fault they can meet.
NextBack ==
    \/ Emplace("a", MaxCap, Vals, TRUE, "PushBack")
    \/ PopBack("a")
    \/ Erase("a", TRUE)

SpecBack == Init /\ [][NextBack]_vars

\* A default-constructed array and appends only.
NextPush == Emplace("a", MaxPushCap, Vals, TRUE, "PushBack")

SpecPush == Init /\ [][NextPush]_vars

\* One array, observed, under appends, insertions and erasures, with every
\* fault they can meet.
InitObserved == Construct(TRUE)

NextObserved ==
    \/ Emplace("a", MaxCap, Vals, TRUE, "PushBack")
    \/ Emplace("a", MaxCap, Vals, TRUE, "Insert")
    \/ Erase("a", TRUE)

SpecObserved == InitObserved /\ [][NextObserved]_vars

\* One array, observed, under appends and Resize, with every fault they
\* can meet.
NextResize ==
    \/ Emplace("a", MaxCap, OneVal, TRUE, "PushBack")
    \/ Resize("a", MaxCap, TRUE)

SpecResize == InitObserved /\ [][NextResize]_vars

\* The raw storage of one array: blocks of every capacity size_t can
\* express, created and released.
NextRaw ==
    \/ NewRawMemory("a")
    \/ DeleteRawMemory("a")

SpecRaw == Init /\ [][NextRaw]_vars

\* One array under appends and removals, and insertions whose argument is
\* an element of the array itself.
NextAlias ==
    \/ Emplace("a", MaxCap, Vals, FALSE, "PushBack")
    \/ PopBack("a")
    \/ EmplaceOf("a", MaxCap, "PushBackOf")
    \/ EmplaceOf("a", MaxCap, "InsertOf")
    \/ EmplaceOf("a", MaxCap, "InsertMoveOf")

SpecAlias == Init /\ [][NextAlias]_vars

\* ------------------------------------------------------------ properties
InsertAt(s, k, v) ==
    [i \in 1..(Len(s) + 1) |-> IF i <= k THEN s[i] ELSE IF i = k + 1 THEN v ELSE s[i - 1]]
RemoveAt(s, k) ==
    [i \in 1..(Len(s) - 1) |-> IF i <= k THEN s[i] ELSE s[i + 1]]
Live(x) == LiveCount(Buf(x))
IsEmplace(c) == c.op \in {"Emplace", "PushBack"}
Failed(c) == c.outcome # "ok"

\* C1: a growth-triggering Emplace (Size() == Capacity()) whose copy-based
\* relocation of the prefix or of the suffix throws ends with the exception
\* propagating and with the array's size, capacity and elements as before
\* the call, at every insertion position.
C1_EmplaceStrongGuarantee ==
    [][(/\ IsEmplace(call')
        /\ Size("a") = Capacity("a")
        /\ ~ByMove(elem)
        /\ call'.at \in {"prefix", "suffix"})
       => (call'.outcome = "threw" /\ vec' = vec /\ heap' = heap)]_vars

\* C2: a Reserve(n), n > Capacity(), whose copy-based relocation throws at
\* any element leaves the array with its buffer, size, capacity and elements;
\* every element built in the new buffer is destroyed and the new storage
\* is released.
C2_ReserveStrongGuarantee ==
    [][(call'.op = "Reserve" /\ call'.at = "reloc" /\ ~ByMove(elem))
       => (/\ call'.outcome = "threw"
           /\ vec' = vec
           /\ heap' = heap
           /\ call'.lost = 0
           /\ ~call'.ub)]_vars

C2_Witness ==
    /\ call.op = "Reserve" /\ call.at = "reloc" /\ call.outcome = "threw"
    /\ ~ByMove(elem)
    /\ Size("a") >= 2
    /\ call.k > Capacity("a")

\* C3: a Reserve or a growth-triggering Emplace that fails, for whatever
\* reason and under either relocation mode, leaves the array as it was
\* before the call: same size, capacity and element values.
C3_FailureLeavesUnchanged ==
    [][(/\ Failed(call')
        /\ \/ call'.op = "Reserve"
           \/ IsEmplace(call') /\ Size("a") = Capacity("a"))
       => (call'.outcome = "threw" /\ vec' = vec /\ heap' = heap)]_vars

\* C4: in every reachable state, slots [0, Size()) of an array each hold a
\* constructed element and slots [Size(), Capacity()) hold none.
C4_SlotsInvariant ==
    \A x \in Names : \A i \in 1..Capacity(x) :
       IF i <= Size(x) THEN Buf(x)[i] # Raw ELSE Buf(x)[i] = Raw

\* C5: 0 <= Size() <= Capacity() in every reachable state, after calls that
\* failed included.
C5_SizeWithinCapacity ==
    \A x \in Names :
       /\ 0 <= Size(x)
       /\ Size(x) <= Capacity(x)
       /\ Capacity(x) = Len(Buf(x))

C5_Witness ==
    /\ call.op = "Resize" /\ call.at = "default" /\ call.outcome = "threw"
    /\ Capacity("a") = call.k
    /\ Size("a") < Capacity("a")
    /\ Size("a") > 0

\* C6: a successful Emplace at offset k of value v on the sequence s gives
\* s[0..k) ++ [v] ++ s[k..), one element more, and returns position k, on
\* each of the three paths; and from empty, PushBack 1, 2, 3 gives [1,2,3]
\* with capacity 4, Emplace(begin()+1, 99) gives [1,99,2,3], Erase(begin())
\* gives [99,2,3] and PopBack gives [99,2].
C6_Step(c, before, capBefore, after, capAfter) ==
    (/\ [call' EXCEPT !.ret = 0, !.allocs = 0] = c
     /\ Contents("a") = before
     /\ Capacity("a") = capBefore)
    => (/\ ContentsOf(heap', vec', "a") = after
        /\ vec'["a"].size = Len(after)
        /\ vec'["a"].capacity = capAfter)

C6_Call(op, k, v) ==
    [op |-> op, who |-> "a", from |-> "a", k |-> k, v |-> v, at |-> "none",
     kind |-> "std", outcome |-> "ok", ret |-> 0, ub |-> FALSE, lost |-> 0,
     allocs |-> 0]

C6_EmplaceInserts ==
    [][/\ (IsEmplace(call') /\ call'.outcome = "ok")
          => /\ ContentsOf(heap', vec', "a") =
                  InsertAt(Contents("a"), call'.k, call'.v)
             /\ vec'["a"].size = Size("a") + 1
             /\ call'.ret = call'.k
       /\ C6_Step(C6_Call("PushBack", 0, 1), <<>>, 0, <<1>>, 1)
       /\ C6_Step(C6_Call("PushBack", 1, 2), <<1>>, 1, <<1, 2>>, 2)
       /\ C6_Step(C6_Call("PushBack", 2, 3), <<1, 2>>, 2, <<1, 2, 3>>, 4)
       /\ C6_Step(C6_Call("Emplace", 1, 99), <<1, 2, 3>>, 4, <<1, 99, 2, 3>>, 4)
       /\ C6_Step(C6_Call("Erase", 0, 0), <<1, 99, 2, 3>>, 4, <<99, 2, 3>>, 4)
       /\ C6_Step(C6_Call("PopBack", 0, 0), <<99, 2, 3>>, 4, <<99, 2>>, 4)]_vars

C6_Witness ==
    /\ call.op = "Emplace" /\ call.outcome = "ok" /\ call.k = 1 /\ call.v = 99
    /\ call.ret = 1
    /\ Contents("a") = <<1, 99, 2, 3>>
    /\ Capacity("a") = 4

\* C7: a successful PushBack adds exactly one element at the end, PopBack
\* removes exactly the last and Erase exactly the element at its position,
\* keeping the order of the others; the number of constructed elements of
\* the buffer stays equal to Size().
C7_SizeCountsSurvivors ==
    [][(~Failed(call'))
       => /\ call'.op = "PushBack" =>
               ContentsOf(heap', vec', "a") = Append(Contents("a"), call'.v)
          /\ call'.op = "PopBack" =>
               ContentsOf(heap', vec', "a") = SubSeq(Contents("a"), 1, Size("a") - 1)
          /\ call'.op = "Erase" =>
               ContentsOf(heap', vec', "a") = RemoveAt(Contents("a"), call'.k)
          /\ vec'["a"].size = Size("a") + (IF call'.op = "PushBack" THEN 1 ELSE -1)
          /\ Live("a") = Size("a") =>
               LiveCount(BufOf(heap', vec', "a")) = vec'["a"].size]_vars

C7_Witness ==
    /\ call.op = "Erase" /\ call.outcome = "ok" /\ call.k = 0
    /\ Size("a") >= 2
    /\ Contents("a")[1] # Contents("a")[2]
    /\ Live("a") = Size("a")

\* C8: an append that finds the array full makes the capacity
\* max(1, 2 x capacity) and no other append changes it, so that appends
\* alone give the capacities 0, 1, 2, 4, 8, ...
Doublings == {0} \cup {c \in 1..MaxPushCap : \E e \in 0..MaxPushCap : c = 2 ^ e}

C8_CapacityDoubles ==
    [][call'.op = "PushBack"
       => /\ vec'["a"].capacity =
               IF ~Failed(call') /\ Size("a") = Capacity("a")
               THEN Max(1, 2 * Capacity("a")) ELSE Capacity("a")
          /\ vec'["a"].capacity \in Doublings]_vars

C8_Witness ==
    /\ call.op = "PushBack" /\ call.outcome = "ok"
    /\ Capacity("a") = 8 /\ Size("a") = 5

\* C9: after a successful copy assignment the target has the source's size
\* and elements; a call on one array, failed or not, leaves the other
\* array's size, capacity and elements as they were; two arrays never own
\* the same storage.
Targets(c) ==
    IF c.op \in {"MoveAssign", "Swap", "MoveConstruct"} THEN {c.who, c.from}
    ELSE {c.who}

C9_CopyAssignIndependent ==
    [][/\ (call'.op = "CopyAssign" /\ ~Failed(call'))
          => /\ vec'[call'.who].size = vec[call'.from].size
             /\ ContentsOf(heap', vec', call'.who) =
                  ContentsOf(heap, vec, call'.from)
       /\ \A x \in Names \ Targets(call') :
             /\ vec'[x] = vec[x]
             /\ BufOf(heap', vec', x) = BufOf(heap, vec, x)
       /\ vec'["a"].buffer = vec'["b"].buffer => vec'["a"].buffer = 0]_vars

C9_Witness ==
    /\ call.op = "CopyAssign" /\ call.outcome = "ok"
    /\ call.who = "b" /\ call.from = "a"
    /\ Size("b") = 2
    /\ Contents("b") = Contents("a")
    /\ Contents("b")[1] # Contents("b")[2]
    /\ vec["a"].buffer # vec["b"].buffer

\* C10: a move assignment exchanges the two arrays' storage, size and
\* capacity, and touches no element.
C10_MoveAssignSwaps ==
    [][call'.op = "MoveAssign"
       => /\ vec'[call'.who] = vec[call'.from]
          /\ vec'[call'.from] = vec[call'.who]
          /\ heap' = heap
          /\ call'.outcome = "ok"]_vars

C10_Witness ==
    /\ call.op = "MoveAssign" /\ call.who = "b" /\ call.from = "a"
    /\ Size("a") = 1 /\ Size("b") = 2
    /\ Capacity("a") # Capacity("b")

\* C11: a successful Erase at position p followed by a successful
\* Insert(p, v) at the same offset gives back the Size() and the Capacity()
\* the array had before the Erase, and the sequence it had then with only
\* the element at p replaced by v; whether the array was full or not, and
\* also when p is the last element.
C11_EraseThenInsert ==
    [][(/\ prev.on
        /\ call.op = "Erase" /\ call.outcome = "ok"
        /\ call'.op = "Insert" /\ call'.outcome = "ok"
        /\ call'.k = call.k)
       => (/\ vec'["a"].size = prev.size
           /\ vec'["a"].capacity = prev.capacity
           /\ ContentsOf(heap', vec', "a") =
                [prev.contents EXCEPT ![call.k + 1] = call'.v])]_vars

C11_Witness ==
    /\ call.op = "Insert" /\ call.outcome = "ok" /\ call.k = 1
    /\ prev.call.op = "Erase" /\ prev.call.outcome = "ok" /\ prev.call.k = 1
    /\ Size("a") = 4 /\ Capacity("a") = 4
    /\ Contents("a")[2] = call.v
    /\ Contents("a")[1] # Contents("a")[3]

\* C12 as stated: the Capacity() of an array decreases only in a call that
\* reallocates its storage, and PopBack, Erase and a Resize to a size not
\* above Size() leave it as it was.
Removal(c, size) ==
    \/ c.op \in {"PopBack", "Erase"}
    \/ c.op = "Resize" /\ c.k <= size

C12_ShrinksOnlyByReallocation ==
    [][\A x \in Names :
         /\ vec'[x].capacity < vec[x].capacity
              => (call'.who = x /\ call'.allocs > 0)
         /\ (call'.who = x /\ Removal(call', vec[x].size))
              => vec'[x].capacity = vec[x].capacity]_vars

\* C12 as amended: the Capacity() of an array decreases only when a move
\* assignment exchanges its storage with the other array's, and is then
\* the capacity the other array had, or when a move construction takes its
\* storage and leaves it empty; no call that allocates lowers it, and
\* PopBack, Erase and a Resize to a size not above Size() leave it as it was.
C12_ShrinksOnlyByExchange ==
    [][\A x \in Names :
         /\ vec'[x].capacity < vec[x].capacity
              => \/ /\ call'.op = "MoveAssign"
                    /\ {call'.who, call'.from} = Names
                    /\ \A y \in Names \ {x} : vec'[x] = vec[y]
                 \/ /\ call'.op = "MoveConstruct"
                    /\ call'.from = x
                    /\ vec'[x].capacity = 0 /\ vec'[x].size = 0
         /\ call'.allocs > 0 => vec'[x].capacity >= vec[x].capacity
         /\ (call'.who = x /\ Removal(call', vec[x].size))
              => vec'[x].capacity = vec[x].capacity]_vars

C12_Witness ==
    /\ call.op = "MoveAssign" /\ call.who = "a" /\ call.from = "b"
    /\ Capacity("a") < Capacity("b")
    /\ Size("a") = 1 /\ Size("b") = 2

\* C13: Reserve(n) with n <= Capacity() changes nothing; a Reserve(n) with
\* n > Capacity() that succeeds makes Capacity() exactly n and leaves
\* Size() and the element sequence as they were; and a Reserve(n) right
\* after a successful Reserve(n) changes nothing.
C13_ReserveIdempotent ==
    [][call'.op = "Reserve"
       => /\ call'.k <= Capacity("a")
               => (call'.outcome = "ok" /\ vec' = vec /\ heap' = heap)
          /\ (call'.k > Capacity("a") /\ call'.outcome = "ok")
               => /\ vec'["a"].capacity = call'.k
                  /\ vec'["a"].size = Size("a")
                  /\ ContentsOf(heap', vec', "a") = Contents("a")
                  /\ Len(BufOf(heap', vec', "a")) = call'.k
          /\ (call.op = "Reserve" /\ call.outcome = "ok" /\ call'.k = call.k)
               => (call'.outcome = "ok" /\ vec' = vec /\ heap' = heap)]_vars

C13_Witness ==
    /\ call.op = "Reserve" /\ call.outcome = "ok" /\ call.allocs = 1
    /\ call.k = 3 /\ Capacity("a") = 3
    /\ Size("a") = 2
    /\ Contents("a")[1] # Contents("a")[2]

\* C14: Resize(n) with n <= Size() succeeds, destroys exactly the elements
\* [n, Size()), makes Size() n, keeps the elements [0, n) and every other
\* slot, the storage and Capacity() as they were; Resize(0) leaves no
\* element of the former [0, Size()) constructed.
C14_ResizeShrinks ==
    [][(call'.op = "Resize" /\ call'.k <= Size("a"))
       => /\ call'.outcome = "ok" /\ call'.allocs = 0
          /\ vec'["a"] = [vec["a"] EXCEPT !.size = call'.k]
          /\ ContentsOf(heap', vec', "a") = SubSeq(Contents("a"), 1, call'.k)
          /\ BufOf(heap', vec', "a") =
               [i \in 1..Capacity("a") |->
                  IF call'.k < i /\ i <= Size("a") THEN Raw ELSE Buf("a")[i]]
          /\ \A b \in BufIds \ {vec["a"].buffer} : heap'[b] = heap[b]
          /\ call'.k = 0
               => \A i \in 1..Size("a") : BufOf(heap', vec', "a")[i] = Raw]_vars

C14_Witness ==
    /\ call.op = "Resize" /\ call.outcome = "ok" /\ call.k = 0
    /\ prev.size = 3 /\ prev.capacity = 4
    /\ Size("a") = 0 /\ Capacity("a") = 4
    /\ Live("a") = 0

\* C15: a Resize(n) with n > Size() that succeeds keeps the elements
\* [0, old size) in order, default-constructs exactly the elements
\* [old size, n), makes Size() n and Capacity() max(old capacity, n), the
\* block having that many slots.
C15_ResizeGrows ==
    [][(call'.op = "Resize" /\ call'.k > Size("a") /\ call'.outcome = "ok")
       => /\ vec'["a"].size = call'.k
          /\ vec'["a"].capacity = Max(Capacity("a"), call'.k)
          /\ Len(BufOf(heap', vec', "a")) = Max(Capacity("a"), call'.k)
          /\ ContentsOf(heap', vec', "a") =
               [i \in 1..call'.k |->
                  IF i <= Size("a") THEN Contents("a")[i] ELSE DefaultVal]
          /\ LiveCount(BufOf(heap', vec', "a")) =
               Live("a") + (call'.k - Size("a"))]_vars

C15_Witness ==
    /\ call.op = "Resize" /\ call.outcome = "ok" /\ call.k = 3
    /\ prev.size = 1 /\ prev.capacity = 1
    /\ Capacity("a") = 3
    /\ Contents("a")[1] \in Vals
    /\ Contents("a")[2] = DefaultVal /\ Contents("a")[3] = DefaultVal

\* C16: every call of Reserve, Resize, PushBack, Emplace or copy assignment,
\* failed or not, issues at most one allocation request and obtains at most
\* one block, and issues none and keeps its block when the capacity the
\* array has suffices.
Blocks(h) == {b \in BufIds : h[b] # <<>>}

Suffices(c) ==
    CASE c.op \in {"Reserve", "Resize"} -> c.k <= Capacity(c.who)
      [] c.op \in {"Emplace", "PushBack", "Insert"} -> Size(c.who) < Capacity(c.who)
      [] c.op = "CopyAssign" -> c.who = c.from \/ Size(c.from) <= Capacity(c.who)
      [] OTHER -> TRUE

C16_OneAllocationPerCall ==
    [][/\ call'.allocs <= 1
       /\ Cardinality(Blocks(heap') \ Blocks(heap)) <= 1
       /\ Suffices(call')
            => /\ call'.allocs = 0
               /\ Blocks(heap') \subseteq Blocks(heap)
               /\ call'.op \notin {"MoveAssign", "MoveConstruct"}
                    => vec'[call'.who].buffer = vec[call'.who].buffer]_vars

C16_Witness ==
    /\ call.op = "CopyAssign" /\ call.outcome = "threw" /\ call.at = "copy"
    /\ call.allocs = 1
    /\ call.who = "b" /\ Size("a") = 2 /\ Capacity("b") = 1

\* C17: the creation of a raw block of n slots fails with an allocation
\* error whenever n * sizeof(T) exceeds what size_t can express, never
\* succeeds with a block of fewer than n slots, and for n = 0 gives the
\* null block without an allocation request.
C17_CreateChecksOverflow ==
    [][call'.op = "RawMemory"
       => /\ call'.k * call'.v > SizeMax => call'.outcome = "threw"
          /\ call'.outcome = "ok"
               => /\ vec'["a"].capacity = call'.k
                  /\ Len(BufOf(heap', vec', "a")) >= call'.k
          /\ call'.k = 0
               => /\ call'.outcome = "ok" /\ call'.allocs = 0
                  /\ vec'["a"].buffer = 0]_vars

\* C18: a copy assignment a = b with b.Size() <= a.Capacity(), failed or
\* not, issues no allocation request and keeps a's block and Capacity();
\* when it succeeds a.Size() is b.Size(), the slots [0, b.Size()) hold b's
\* elements, a's elements beyond b.Size() are destroyed and the other
\* slots are as they were.  With b.Size() > a.Capacity() a success gives a
\* a new block of exactly b.Size() slots.
C18_CopyAssignReusesStorage ==
    [][(call'.op = "CopyAssign" /\ call'.who # call'.from)
       => LET a == call'.who
              b == call'.from
          IN  IF Size(b) <= Capacity(a)
              THEN /\ call'.allocs = 0
                   /\ vec'[a].buffer = vec[a].buffer
                   /\ vec'[a].capacity = Capacity(a)
                   /\ Blocks(heap') \subseteq Blocks(heap)
                   /\ call'.outcome = "ok"
                        => /\ vec'[a].size = Size(b)
                           /\ BufOf(heap', vec', a) =
                                [i \in 1..Capacity(a) |->
                                   IF i <= Size(b) THEN Buf(b)[i]
                                   ELSE IF i <= Size(a) THEN Raw
                                   ELSE Buf(a)[i]]
              ELSE /\ call'.allocs = 1
                   /\ call'.outcome = "ok"
                        => /\ vec'[a].capacity = Size(b)
                           /\ vec'[a].size = Size(b)
                           /\ vec'[a].buffer \notin {0, vec[a].buffer, vec[b].buffer}
                           /\ BufOf(heap', vec', a) = Contents(b)]_vars

C18_Witness ==
    /\ call.op = "CopyAssign" /\ call.outcome = "ok" /\ call.allocs = 0
    /\ call.who = "b" /\ call.from = "a"
    /\ Size("a") = 1 /\ Size("b") = 1 /\ Capacity("b") = 2
    /\ Contents("b") = Contents("a")
    /\ Live("b") = 1

\* C19: on every path of Emplace, failure paths included, no destructor
\* runs on a slot that holds no constructed element (a second destruction
\* of an element is one), and when a growth-triggering Emplace fails every
\* element constructed in the new buffer is destroyed before the buffer is
\* released, whatever the type of the exception.
C19_LifetimesBalanced ==
    [][IsEmplace(call')
       => /\ ~call'.ub
          /\ call'.outcome # "abort"
          /\ (Size("a") = Capacity("a") /\ Failed(call')) => call'.lost = 0]_vars

\* C20: a successful PushBack(x), Insert(pos, x) or Emplace(pos, x) whose
\* argument x is the element j of the same array inserts the value that
\* element had before the call, on the growing path and on both in-place
\* paths; the other elements keep their order, the one moved from being
\* left moved-from.
AliasOps == {"PushBackOf", "InsertOf", "InsertMoveOf"}

C20_AliasedArgument ==
    [][(call'.op \in AliasOps /\ call'.outcome = "ok")
       => LET x == Contents("a")[call'.v + 1]
              rest == IF call'.op = "InsertMoveOf"
                      THEN [Contents("a") EXCEPT ![call'.v + 1] = MovedFrom]
                      ELSE Contents("a")
          IN  /\ ContentsOf(heap', vec', "a")[call'.k + 1] = x
              /\ ContentsOf(heap', vec', "a") = InsertAt(rest, call'.k, x)
              /\ vec'["a"].size = Size("a") + 1]_vars

C20_Witness ==
    /\ call.op = "InsertOf" /\ call.outcome = "ok"
    /\ call.k = 0 /\ call.v = 1
    /\ Contents("a") = <<2, 1, 2>>
    /\ Capacity("a") = 4

====
